---- MODULE Spec2Model ----
(***************************************************************************)
(* Combat session orchestration of wlc-coordinator-server:                 *)
(*   CombatManager  (src/src/services/CombatManager.ts)  the registry      *)
(*   LobbyService   (src/unnamed/part_002)  the per-lobby index and the     *)
(*                  socket admission entry point manageSocket              *)
(* CombatConnection (the session object) and AuthService are not part of   *)
(* the sources at hand; the definitions that stand for them follow the     *)
(* written specification and are marked as such where they are defined.    *)
(*                                                                         *)
(* The server is a single-threaded event loop: a synchronous handler runs  *)
(* to completion, an async function runs up to its next await, where it is *)
(* suspended and the other handlers run (getLobbyInfo and                  *)
(* getEmittableCombatPreset are modelled one step per such stretch).       *)
(* removeSelf is modelled in two steps (its two statements), because its   *)
(* intermediate state is what some of the properties are about; no other   *)
(* handler runs between the two steps.                                     *)
(***************************************************************************)
EXTENDS Integers, Sequences, FiniteSets, TLC

VARIABLES
    managedSoFar,     \* CombatManager.managedSoFar
    combats,          \* CombatManager.combats: Map<string, CombatConnection>
    sessions,         \* the CombatConnection objects ever constructed, in order
    managingCombats,  \* LobbyService.managingCombats: Map<string, Array<string>>
    attempt,          \* the admission manageSocket has just made, if it was the last handler
    pc,               \* where the event loop is: idle, or inside removeSelf
    lastReturned,     \* value returned by the latest LobbyService.createCombat
    info,             \* the getLobbyInfo call in flight, with its local variables
    cook              \* the getEmittableCombatPreset call in flight: its arguments, its locals, storage

vars == <<managedSoFar, combats, sessions, managingCombats, attempt, pc, lastReturned,
          info, cook>>

---------------------------------------------------------------------------
(* Bounds of the model *)

MaxCombats == 3
MaxAdmissionCombats == 2
MaxSockets == 2
MaxRounds == 1

(* Inputs *)

Lobbies == {"lobby1", "lobby2"}
Users == {"p1", "p2"}
Nicknames == {"Boss Fight"}
GameMasters == {"gm1"}
Rosters == {<<"p1">>}
Sockets == 1..MaxSockets
Tokens == [sub : Users, valid : {TRUE}] \cup [sub : {"p1"}, valid : {FALSE}]
NoToken == [sub |-> "", valid |-> FALSE]
NoAttempt == [socket |-> 0, combat_id |-> "", token |-> NoToken, calls |-> <<>>,
              disconnected |-> FALSE]
NoInfo == [at |-> "idle"]
NoCook == [at |-> "idle"]

---------------------------------------------------------------------------
(* JavaScript helpers *)

Digit == <<"0", "1", "2", "3", "4", "5", "6", "7", "8", "9">>

\* Number.prototype.toString() of a non-negative integer
RECURSIVE NumberToString(_)
NumberToString(n) ==
    IF n < 10 THEN Digit[n + 1]
    ELSE NumberToString(n \div 10) \o Digit[(n % 10) + 1]

\* Array.prototype.indexOf: 0-based index of the first occurrence, or -1
indexOf(arr, x) ==
    IF \E k \in 1..Len(arr) : arr[k] = x
    THEN (CHOOSE k \in 1..Len(arr) : arr[k] = x /\ \A j \in 1..(k - 1) : arr[j] # x) - 1
    ELSE -1

\* Array.prototype.splice(index, 1) with 0 <= index: the array after the call
splice(arr, index) ==
    [k \in 1..(Len(arr) - (IF index < Len(arr) THEN 1 ELSE 0)) |->
        IF k <= index THEN arr[k] ELSE arr[k + 1]]

\* Map.prototype.set
MapSet(m, k, v) == [x \in DOMAIN m \cup {k} |-> IF x = k THEN v ELSE m[x]]

\* Map.prototype.delete
MapDelete(m, k) == [x \in DOMAIN m \ {k} |-> m[x]]

\* The session ids a client may ask for: every id that can be issued, and one more
RequestedIds == {NumberToString(n) : n \in 0..MaxAdmissionCombats}

---------------------------------------------------------------------------
(* CombatManager *)

\* the value of an absent Map entry (undefined); objects are numbered from 1
Absent == 0

\* CombatManager.get
get(combat_id) == IF combat_id \in DOMAIN combats THEN combats[combat_id] ELSE Absent

\* an id taken from the number of sessions the registry holds
AllocateIdBySize == NumberToString(Cardinality(DOMAIN combats))

\* const combat_id = (this.managedSoFar++).toString(): the id that is issued
AllocateId == NumberToString(managedSoFar)

\* new CombatConnection(combatNickname, preset, removeSelf, gm_id, players).
\* removeSelf closes over combat_id, and over onDeleted, which closes over the
\* array of lobby_id and over combatId.  A new session is Pending with round 0.
NewCombatConnection(combatNickname, gm_id, players, combat_id, lobby_id) ==
    [ combatNickname |-> combatNickname,
      gm_id          |-> gm_id,
      players        |-> players,
      combat_id      |-> combat_id,
      lobby_id       |-> lobby_id,
      status         |-> "Pending",
      roundCount     |-> 0,
      connections    |-> {} ]

\* createCombat that stores the session under the counter after its increment
CombatManagerCreateCombatKeyAfterIncrement(combat_id, combatNickname, gm_id, players, lobby_id) ==
    /\ managedSoFar' = managedSoFar + 1
    /\ sessions' = Append(sessions,
            NewCombatConnection(combatNickname, gm_id, players, combat_id, lobby_id))
    /\ combats' = MapSet(combats, NumberToString(managedSoFar + 1), Len(sessions) + 1)

\* CombatManager.createCombat, given the id it allocates
CombatManagerCreateCombat(combat_id, combatNickname, gm_id, players, lobby_id) ==
    /\ managedSoFar' = managedSoFar + 1
    /\ sessions' = Append(sessions,
            NewCombatConnection(combatNickname, gm_id, players, combat_id, lobby_id))
    /\ combats' = MapSet(combats, combat_id, Len(sessions) + 1)

---------------------------------------------------------------------------
(* LobbyService: the lobby index *)

\* LobbyService.getActiveCombats
getActiveCombats(lobby_id) ==
    IF lobby_id \in DOMAIN managingCombats THEN managingCombats[lobby_id] ELSE <<>>

\* createCombat that puts the new id at the front of the array (unshift)
createCombatUnshift(lobby_id, combatNickname, gm_id, players) ==
    /\ pc.op = "idle"
    /\ managedSoFar < MaxCombats
    /\ LET combatId == AllocateId
           array == getActiveCombats(lobby_id)
       IN /\ CombatManagerCreateCombat(combatId, combatNickname, gm_id, players, lobby_id)
          /\ managingCombats' = MapSet(managingCombats, lobby_id, <<combatId>> \o array)
          /\ lastReturned' = combatId
    /\ attempt' = NoAttempt
    /\ UNCHANGED <<info, cook>>
    /\ UNCHANGED pc

\* createCombat that pushes the new id twice
createCombatPushesTwice(lobby_id, combatNickname, gm_id, players) ==
    /\ pc.op = "idle"
    /\ managedSoFar < MaxCombats
    /\ LET combatId == AllocateId
           array == getActiveCombats(lobby_id)
       IN /\ CombatManagerCreateCombat(combatId, combatNickname, gm_id, players, lobby_id)
          /\ managingCombats' = MapSet(managingCombats, lobby_id,
                                       Append(Append(array, combatId), combatId))
          /\ lastReturned' = combatId
    /\ attempt' = NoAttempt
    /\ UNCHANGED <<info, cook>>
    /\ UNCHANGED pc

\* LobbyService.createCombat
createCombat(lobby_id, combatNickname, gm_id, players) ==
    /\ pc.op = "idle"
    /\ managedSoFar < MaxCombats
    /\ LET combatId == AllocateId
           array == getActiveCombats(lobby_id)
       IN /\ CombatManagerCreateCombat(combatId, combatNickname, gm_id, players, lobby_id)
          /\ managingCombats' = MapSet(managingCombats, lobby_id, Append(array, combatId))
          /\ lastReturned' = combatId
    /\ attempt' = NoAttempt
    /\ UNCHANGED <<info, cook>>
    /\ UNCHANGED pc

---------------------------------------------------------------------------
(* Removal of a session *)

\* a hook that drops the last id of the array instead of the one at index
onDeletedRemovesLast(lobby_id, combatId) ==
    LET array == managingCombats[lobby_id]
        index == indexOf(array, combatId)
    IN IF index # -1
       THEN managingCombats' = [managingCombats EXCEPT ![lobby_id] = SubSeq(array, 1, Len(array) - 1)]
       ELSE managingCombats' = managingCombats

\* a hook that fills the place of the id with the last id of the array and drops
\* the last place
onDeletedSwapWithLast(lobby_id, combatId) ==
    LET array == managingCombats[lobby_id]
        index == indexOf(array, combatId)
    IN IF index # -1
       THEN managingCombats' = [managingCombats EXCEPT ![lobby_id] =
                SubSeq([array EXCEPT ![index + 1] = array[Len(array)]], 1, Len(array) - 1)]
       ELSE managingCombats' = managingCombats

\* a hook that splices without testing the index (splice(-1, 1) drops the last id)
onDeletedNoIndexCheck(lobby_id, combatId) ==
    LET array == managingCombats[lobby_id]
        index == indexOf(array, combatId)
    IN IF index # -1
       THEN managingCombats' = [managingCombats EXCEPT ![lobby_id] = splice(array, index)]
       ELSE managingCombats' = [managingCombats EXCEPT ![lobby_id] = SubSeq(array, 1, Len(array) - 1)]

\* the closure handed to CombatManager.createCombat by LobbyService.createCombat:
\* combats is the array of the creating lobby, combatId the id of the session
onDeleted(lobby_id, combatId) ==
    LET array == managingCombats[lobby_id]
        index == indexOf(array, combatId)
    IN IF index # -1
       THEN managingCombats' = [managingCombats EXCEPT ![lobby_id] = splice(array, index)]
       ELSE managingCombats' = managingCombats

\* removeSelf with its two statements in the other order (hook first)
removeSelfHookFirst(i, stmt) ==
    IF stmt = 1
    THEN onDeleted(sessions[i].lobby_id, sessions[i].combat_id) /\ UNCHANGED combats
    ELSE combats' = MapDelete(combats, sessions[i].combat_id) /\ UNCHANGED managingCombats

\* removeSelf that forgets the caller's hook
removeSelfNoHook(i, stmt) ==
    IF stmt = 1
    THEN combats' = MapDelete(combats, sessions[i].combat_id) /\ UNCHANGED managingCombats
    ELSE UNCHANGED <<combats, managingCombats>>

\* removeSelf that leaves the session in the map and only calls the hook
removeSelfNoDelete(i, stmt) ==
    IF stmt = 1
    THEN UNCHANGED <<combats, managingCombats>>
    ELSE onDeleted(sessions[i].lobby_id, sessions[i].combat_id) /\ UNCHANGED combats

\* removeSelf of session object i: statement 1 is this.combats.delete(combat_id),
\* statement 2 is onDeleted()
removeSelf(i, stmt) ==
    IF stmt = 1
    THEN combats' = MapDelete(combats, sessions[i].combat_id) /\ UNCHANGED managingCombats
    ELSE onDeleted(sessions[i].lobby_id, sessions[i].combat_id) /\ UNCHANGED combats

---------------------------------------------------------------------------
(* CombatConnection: the session object (its life cycle follows the          *)
(* specification: Pending -> Active -> Finished, Finished triggers removal)  *)

isActive(i) == sessions[i].status = "Active"

getRoundCount(i) == sessions[i].roundCount

\* Pending -> Active
startCombat(i) ==
    /\ pc.op = "idle"
    /\ sessions[i].status = "Pending"
    /\ sessions' = [sessions EXCEPT ![i].status = "Active"]
    /\ attempt' = NoAttempt
    /\ UNCHANGED <<info, cook>>
    /\ UNCHANGED <<managedSoFar, combats, managingCombats, pc, lastReturned>>

\* a round of turns completes
completeRound(i) ==
    /\ pc.op = "idle"
    /\ sessions[i].status = "Active"
    /\ sessions[i].roundCount < MaxRounds
    /\ sessions' = [sessions EXCEPT ![i].roundCount = @ + 1]
    /\ attempt' = NoAttempt
    /\ UNCHANGED <<info, cook>>
    /\ UNCHANGED <<managedSoFar, combats, managingCombats, pc, lastReturned>>

\* The session invokes its removal callback (it has finished, or it is torn down;
\* nothing prevents a session object from invoking it again later).  The step runs
\* the first statement of removeSelf.
invokeRemoveSelf(i) ==
    /\ pc.op = "idle"
    /\ sessions' = [sessions EXCEPT ![i].status = "Finished"]
    /\ removeSelf(i, 1)
    /\ pc' = [op |-> "removeSelf", session |-> i]
    /\ attempt' = NoAttempt
    /\ UNCHANGED <<info, cook>>
    /\ UNCHANGED <<managedSoFar, lastReturned>>

\* the second statement of removeSelf, and its return
finishRemoveSelf ==
    /\ pc.op = "removeSelf"
    /\ removeSelf(pc.session, 2)
    /\ pc' = [op |-> "idle", session |-> Absent]
    /\ attempt' = NoAttempt
    /\ UNCHANGED <<info, cook>>
    /\ UNCHANGED <<managedSoFar, sessions, lastReturned>>

---------------------------------------------------------------------------
(* AuthService and the connection side of CombatConnection (both follow the  *)
(* interfaces of the specification)                                          *)

\* AuthService.verifyAccessToken throws on an invalid or expired token
verifyAccessTokenThrows(userToken) == ~userToken.valid

\* AuthService.verifyAccessToken(userToken)._id
verifyAccessToken(userToken) == userToken.sub

\* CombatConnection.isPlayerInCombat: the player has an attached connection
isPlayerInCombat(i, user_id) == \E c \in sessions[i].connections : c[1] = user_id

\* CombatConnection.handlePlayer: the socket becomes a live channel of the player
handlePlayer(i, user_id, s, att) ==
    /\ sessions' = [sessions EXCEPT ![i].connections = @ \cup {<<user_id, s>>}]
    /\ attempt' = [att EXCEPT !.calls = Append(@, "handlePlayer")]

\* the sockets that are attached to some session
LiveSockets == UNION {{c[2] : c \in sessions[i].connections} : i \in 1..Len(sessions)}

\* a close that drops every connection of the session
closeSocketDropsAll(i, c) ==
    /\ pc.op = "idle"
    /\ c \in sessions[i].connections
    /\ sessions' = [sessions EXCEPT ![i].connections = {}]
    /\ attempt' = NoAttempt
    /\ UNCHANGED <<info, cook>>
    /\ UNCHANGED <<managedSoFar, combats, managingCombats, pc, lastReturned>>

\* the attached connection c = <<player, socket>> of session i closes: the session
\* releases the slot
closeSocket(i, c) ==
    /\ pc.op = "idle"
    /\ c \in sessions[i].connections
    /\ sessions' = [sessions EXCEPT ![i].connections = @ \ {c}]
    /\ attempt' = NoAttempt
    /\ UNCHANGED <<info, cook>>
    /\ UNCHANGED <<managedSoFar, combats, managingCombats, pc, lastReturned>>

---------------------------------------------------------------------------
(* LobbyService: socket admission *)

\* the calls manageSocket has made so far
Called(att, names) == [att EXCEPT !.calls = @ \o names]

\* LobbyService.disconnectSocket
disconnectSocket(att) ==
    /\ attempt' = [att EXCEPT !.disconnected = TRUE, !.calls = Append(@, "disconnect")]
    /\ UNCHANGED sessions

\* manageSocket that admits the players of the session's roster and its game
\* master only
manageSocketRosterOnly(s, combat_id, userToken) ==
    LET combat == get(combat_id)
        att == [socket |-> s, combat_id |-> combat_id, token |-> userToken,
                calls |-> <<>>, disconnected |-> FALSE]
    IN IF combat = Absent
       THEN disconnectSocket(Called(att, <<"get">>))
       ELSE IF verifyAccessTokenThrows(userToken)
       THEN disconnectSocket(
                Called(att, <<"get", "verifyAccessToken", "emit invalid_token">>))
       ELSE LET user_id == verifyAccessToken(userToken)
            IN IF \/ isPlayerInCombat(combat, user_id)
                  \/ /\ indexOf(sessions[combat].players, user_id) = -1
                     /\ user_id # sessions[combat].gm_id
               THEN disconnectSocket(
                        Called(att, <<"get", "verifyAccessToken", "isPlayerInCombat">>))
               ELSE handlePlayer(combat, user_id, s,
                        Called(att, <<"get", "verifyAccessToken", "isPlayerInCombat">>))

\* manageSocket whose duplicate branch also drops the connection the player has
manageSocketRejectKicks(s, combat_id, userToken) ==
    LET combat == get(combat_id)
        att == [socket |-> s, combat_id |-> combat_id, token |-> userToken,
                calls |-> <<>>, disconnected |-> FALSE]
    IN IF combat = Absent
       THEN disconnectSocket(Called(att, <<"get">>))
       ELSE IF verifyAccessTokenThrows(userToken)
       THEN disconnectSocket(
                Called(att, <<"get", "verifyAccessToken", "emit invalid_token">>))
       ELSE LET user_id == verifyAccessToken(userToken)
            IN IF isPlayerInCombat(combat, user_id)
               THEN /\ attempt' = [Called(att, <<"get", "verifyAccessToken",
                                                 "isPlayerInCombat", "disconnect">>)
                                        EXCEPT !.disconnected = TRUE]
                    /\ sessions' = [sessions EXCEPT ![combat].connections =
                                        {c \in @ : c[1] # user_id}]
               ELSE handlePlayer(combat, user_id, s,
                        Called(att, <<"get", "verifyAccessToken", "isPlayerInCombat">>))

\* manageSocket with the isPlayerInCombat test inverted
manageSocketInvertedCheck(s, combat_id, userToken) ==
    LET combat == get(combat_id)
        att == [socket |-> s, combat_id |-> combat_id, token |-> userToken,
                calls |-> <<>>, disconnected |-> FALSE]
    IN IF combat = Absent
       THEN disconnectSocket(Called(att, <<"get">>))
       ELSE IF verifyAccessTokenThrows(userToken)
       THEN disconnectSocket(
                Called(att, <<"get", "verifyAccessToken", "emit invalid_token">>))
       ELSE LET user_id == verifyAccessToken(userToken)
            IN IF ~isPlayerInCombat(combat, user_id)
               THEN disconnectSocket(
                        Called(att, <<"get", "verifyAccessToken", "isPlayerInCombat">>))
               ELSE handlePlayer(combat, user_id, s,
                        Called(att, <<"get", "verifyAccessToken", "isPlayerInCombat">>))

\* manageSocket without the isPlayerInCombat check
manageSocketNoDuplicateCheck(s, combat_id, userToken) ==
    LET combat == get(combat_id)
        att == [socket |-> s, combat_id |-> combat_id, token |-> userToken,
                calls |-> <<>>, disconnected |-> FALSE]
    IN IF combat = Absent
       THEN disconnectSocket(Called(att, <<"get">>))
       ELSE IF verifyAccessTokenThrows(userToken)
       THEN disconnectSocket(
                Called(att, <<"get", "verifyAccessToken", "emit invalid_token">>))
       ELSE handlePlayer(combat, verifyAccessToken(userToken), s,
                Called(att, <<"get", "verifyAccessToken">>))

\* manageSocket whose duplicate branch disconnects but does not return
manageSocketFallThrough(s, combat_id, userToken) ==
    LET combat == get(combat_id)
        att == [socket |-> s, combat_id |-> combat_id, token |-> userToken,
                calls |-> <<>>, disconnected |-> FALSE]
    IN IF combat = Absent
       THEN disconnectSocket(Called(att, <<"get">>))
       ELSE IF verifyAccessTokenThrows(userToken)
       THEN disconnectSocket(
                Called(att, <<"get", "verifyAccessToken", "emit invalid_token">>))
       ELSE LET user_id == verifyAccessToken(userToken)
            IN IF isPlayerInCombat(combat, user_id)
               THEN handlePlayer(combat, user_id, s,
                        [Called(att, <<"get", "verifyAccessToken", "isPlayerInCombat",
                                       "disconnect">>) EXCEPT !.disconnected = TRUE])
               ELSE handlePlayer(combat, user_id, s,
                        Called(att, <<"get", "verifyAccessToken", "isPlayerInCombat">>))

\* manageSocket whose catch block does not emit "invalid_token"
manageSocketNoEmit(s, combat_id, userToken) ==
    LET combat == get(combat_id)
        att == [socket |-> s, combat_id |-> combat_id, token |-> userToken,
                calls |-> <<>>, disconnected |-> FALSE]
    IN IF combat = Absent
       THEN disconnectSocket(Called(att, <<"get">>))
       ELSE IF verifyAccessTokenThrows(userToken)
       THEN disconnectSocket(Called(att, <<"get", "verifyAccessToken">>))
       ELSE LET user_id == verifyAccessToken(userToken)
            IN IF isPlayerInCombat(combat, user_id)
               THEN disconnectSocket(
                        Called(att, <<"get", "verifyAccessToken", "isPlayerInCombat">>))
               ELSE handlePlayer(combat, user_id, s,
                        Called(att, <<"get", "verifyAccessToken", "isPlayerInCombat">>))

\* manageSocket that verifies the token before it resolves the session
manageSocketVerifyFirst(s, combat_id, userToken) ==
    LET combat == get(combat_id)
        att == [socket |-> s, combat_id |-> combat_id, token |-> userToken,
                calls |-> <<>>, disconnected |-> FALSE]
    IN IF verifyAccessTokenThrows(userToken)
       THEN disconnectSocket(Called(att, <<"verifyAccessToken", "emit invalid_token">>))
       ELSE IF combat = Absent
       THEN disconnectSocket(Called(att, <<"verifyAccessToken", "get">>))
       ELSE LET user_id == verifyAccessToken(userToken)
            IN IF isPlayerInCombat(combat, user_id)
               THEN disconnectSocket(
                        Called(att, <<"verifyAccessToken", "get", "isPlayerInCombat">>))
               ELSE handlePlayer(combat, user_id, s,
                        Called(att, <<"verifyAccessToken", "get", "isPlayerInCombat">>))

\* manageSocket whose catch block emits "invalid_token" and returns without
\* disconnecting
manageSocketNoDisconnect(s, combat_id, userToken) ==
    LET combat == get(combat_id)
        att == [socket |-> s, combat_id |-> combat_id, token |-> userToken,
                calls |-> <<>>, disconnected |-> FALSE]
    IN IF combat = Absent
       THEN disconnectSocket(Called(att, <<"get">>))
       ELSE IF verifyAccessTokenThrows(userToken)
       THEN /\ attempt' = Called(att, <<"get", "verifyAccessToken", "emit invalid_token">>)
            /\ UNCHANGED sessions
       ELSE LET user_id == verifyAccessToken(userToken)
            IN IF isPlayerInCombat(combat, user_id)
               THEN disconnectSocket(
                        Called(att, <<"get", "verifyAccessToken", "isPlayerInCombat">>))
               ELSE handlePlayer(combat, user_id, s,
                        Called(att, <<"get", "verifyAccessToken", "isPlayerInCombat">>))

\* LobbyService.manageSocket
manageSocket(s, combat_id, userToken) ==
    LET combat == get(combat_id)
        att == [socket |-> s, combat_id |-> combat_id, token |-> userToken,
                calls |-> <<>>, disconnected |-> FALSE]
    IN IF combat = Absent
       THEN disconnectSocket(Called(att, <<"get">>))
       ELSE IF verifyAccessTokenThrows(userToken)
       THEN disconnectSocket(
                Called(att, <<"get", "verifyAccessToken", "emit invalid_token">>))
       ELSE LET user_id == verifyAccessToken(userToken)
            IN IF isPlayerInCombat(combat, user_id)
               THEN disconnectSocket(
                        Called(att, <<"get", "verifyAccessToken", "isPlayerInCombat">>))
               ELSE handlePlayer(combat, user_id, s,
                        Called(att, <<"get", "verifyAccessToken", "isPlayerInCombat">>))

\* a connection arrives with (combat_id, userToken) and is handed to manageSocket;
\* a new socket takes the lowest number that no live socket has
socketConnects(s, combat_id, userToken) ==
    /\ pc.op = "idle"
    /\ s \notin LiveSockets
    /\ \A r \in 1..(s - 1) : r \in LiveSockets
    /\ manageSocket(s, combat_id, userToken)
    /\ UNCHANGED <<managedSoFar, combats, managingCombats, pc, lastReturned, info, cook>>

---------------------------------------------------------------------------
(* Preset cooking (src/unnamed/part_003).  presets is the preset collection    *)
(* (id -> field list), entities the set of entity paths that storage holds.    *)
(* getEmittableCombatPreset is an async function: it is suspended at           *)
(* await DatabaseService.getCombatPreset and at await DatabaseService.getEntity *)
(* of every embedded pawn, and the handlers that write to storage run while    *)
(* it waits; each lookup reads storage as it is when the call goes on.  cook    *)
(* holds the arguments of the call, storage, and the locals of the call while  *)
(* it is suspended: the function it is in (fn), the list it iterates (field),  *)
(* the position of the pawn it waits for (k), the seed under construction,     *)
(* the lookups made so far and the error thrown, if any (run).  held and seen  *)
(* record the entity paths storage held at every moment, and at some moment,   *)
(* of the call.                                                                *)

MaxPawns == 2

Squares == {"A1", "B2"}
Paths == {"goblin", "orc"}
Sources == {"embedded", "dlc"}
Controllers == {[type |-> "ai", id |-> "g1"], [type |-> "game_logic"]}
PresetIds == {"preset1", "preset2"}
OmittedType == "<omitted>"
Types == {"importable", "requested", "posted", OmittedType}

\* a pawn of a stored preset (CombatClass.field)
StoredPawns == [square : Squares, source : Sources, path : Paths, controlled_by : Controllers]

\* the field lists the preset collection may hold
StoredFields == UNION {[1..n -> StoredPawns] : n \in 0..MaxPawns}

\* a requested field: the entries of an object keyed by square, in property order
RequestedPawns == [square : Squares, source : Sources, path : Paths, controlledBy : Controllers]

RequestedFields ==
    {f \in UNION {[1..n -> RequestedPawns] : n \in 0..MaxPawns} :
        \A j, k \in 1..Len(f) : j # k => f[j].square # f[k].square}

Null == [null |-> TRUE]

\* the definition storage holds for an entity
EntityDefinition(path) == [descriptor |-> path]

\* DatabaseService.getEntity: the definition, or null
getEntity(entities, path) == IF path \in entities THEN EntityDefinition(path) ELSE Null

\* DatabaseService.getCombatPreset: the stored preset, or null
getCombatPreset(presets, combatPresetId) ==
    IF combatPresetId \in DOMAIN presets THEN [field |-> presets[combatPresetId]] ELSE Null

\* const result: GamePreset = { field_pawns: {}, custom_entities: {} }
NewRun == [field_pawns |-> <<>>, custom_entities |-> <<>>, lookups |-> <<>>, thrown |-> ""]

UnknownTypeMessage == "Unknown type. Use \"importable\" or \"posted\". Provided: "

\* what the caller of getEmittableCombatPreset gets: a seed, null, or the error
\* the promise is rejected with (then nothing of the run is returned)
Outcome(cooked) ==
    IF cooked.run.thrown # ""
    THEN [outcome |-> cooked.run.thrown, message |-> "Entity not found",
          field_pawns |-> <<>>, custom_entities |-> <<>>,
          lookups |-> cooked.run.lookups, presetLookups |-> cooked.presetLookups]
    ELSE [outcome |-> cooked.returned, message |-> "",
          field_pawns |-> cooked.run.field_pawns,
          custom_entities |-> cooked.run.custom_entities,
          lookups |-> cooked.run.lookups, presetLookups |-> cooked.presetLookups]

\* the call settles: its promise resolves with the seed or with null, or is
\* rejected with the error thrown; its locals are gone
Settle(c, returned) ==
    [c EXCEPT !.at = "done",
              !.result = Outcome([returned |-> returned, run |-> c.run,
                                  presetLookups |-> c.presetLookups]),
              !.fn = "", !.field = <<>>, !.k = 0, !.run = NewRun, !.presetLookups = <<>>]

\* result.field_pawns[square] = {...} of cookPresetFromDB that loses the controller
placePawnFromDBNoOwner(run, pawn) ==
    [run EXCEPT !.field_pawns = MapSet(@, pawn.square,
                    [entity_preset |-> [source |-> pawn.source, name |-> pawn.path],
                     owner |-> Null])]

\* result.field_pawns[square] = {...} of cookPresetFromDB
placePawnFromDB(run, pawn) ==
    [run EXCEPT !.field_pawns = MapSet(@, pawn.square,
                    [entity_preset |-> [source |-> pawn.source, name |-> pawn.path],
                     owner |-> pawn.controlled_by])]

\* what follows the await of getEntity in cookPresetFromDB, going on when the
\* entity is absent
storeEntityFromDBSkipsMissing(run, pawn, customEntity) ==
    IF customEntity = Null
    THEN run
    ELSE [run EXCEPT !.custom_entities = MapSet(@, pawn.path, customEntity)]

\* what follows the await of getEntity in cookPresetFromDB
storeEntityFromDB(run, pawn, customEntity) ==
    IF customEntity = Null
    THEN [run EXCEPT !.thrown = "NotFound"]
    ELSE [run EXCEPT !.custom_entities = MapSet(@, pawn.path, customEntity)]

\* for (const pawn of presetFromDB.field), from pawn k on, up to the next
\* await DatabaseService.getEntity(path) or to return result
RECURSIVE cookLoopFromDB(_, _)
cookLoopFromDB(c, k) ==
    IF k > Len(c.field)
    THEN Settle(c, "seed")
    ELSE LET pawn == c.field[k]
             placed == placePawnFromDB(c.run, pawn)
         IN IF pawn.source = "embedded"
            THEN [c EXCEPT !.at = "awaitEntity", !.k = k,
                           !.run = [placed EXCEPT !.lookups = Append(@, pawn.path)]]
            ELSE cookLoopFromDB([c EXCEPT !.run = placed], k + 1)

\* cookPresetFromDB goes on after await DatabaseService.getEntity(path)
resumeEntityFromDB(c) ==
    LET pawn == c.field[c.k]
        run == storeEntityFromDB(c.run, pawn, getEntity(c.entities, pawn.path))
    IN IF run.thrown # ""
       THEN Settle([c EXCEPT !.run = run], "seed")
       ELSE cookLoopFromDB([c EXCEPT !.run = run], c.k + 1)

\* cookPresetFromDB after await DatabaseService.getCombatPreset, throwing NotFound
\* when the preset is absent
resumePresetFromDBThrowsOnMissing(c) ==
    LET presetFromDB == getCombatPreset(c.presets, c.combatPreset)
    IN IF presetFromDB = Null
       THEN Settle([c EXCEPT !.run = [NewRun EXCEPT !.thrown = "NotFound"]], "null")
       ELSE cookLoopFromDB([c EXCEPT !.field = presetFromDB.field], 1)

\* cookPresetFromDB goes on after await DatabaseService.getCombatPreset: null when
\* the preset is absent, else the loop over its field
resumePresetFromDB(c) ==
    LET presetFromDB == getCombatPreset(c.presets, c.combatPreset)
    IN IF presetFromDB = Null
       THEN Settle(c, "null")
       ELSE cookLoopFromDB([c EXCEPT !.field = presetFromDB.field], 1)

\* cookPresetFromDB up to await DatabaseService.getCombatPreset(combatPreset)
cookPresetFromDB(c) ==
    [c EXCEPT !.at = "awaitPreset", !.fn = "cookPresetFromDB", !.run = NewRun,
              !.presetLookups = <<c.combatPreset>>]

\* result.field_pawns[square] = {...} of cookPresetFromRequest
placePawnFromRequest(run, pawn) ==
    [run EXCEPT !.field_pawns = MapSet(@, pawn.square,
                    [entity_preset |-> [source |-> pawn.source, name |-> pawn.path],
                     owner |-> pawn.controlledBy])]

\* what follows the await of getEntity in cookPresetFromRequest, filing the
\* entity under the square
storeEntityFromRequestKeyedBySquare(run, pawn, customEntity) ==
    IF customEntity = Null
    THEN [run EXCEPT !.thrown = "NotFound"]
    ELSE [run EXCEPT !.custom_entities = MapSet(@, pawn.square, customEntity)]

\* what follows the await of getEntity in cookPresetFromRequest, going on when
\* the entity is absent
storeEntityFromRequestSkipsMissing(run, pawn, customEntity) ==
    IF customEntity = Null
    THEN run
    ELSE [run EXCEPT !.custom_entities = MapSet(@, pawn.path, customEntity)]

\* what follows the await of getEntity in cookPresetFromRequest
storeEntityFromRequest(run, pawn, customEntity) ==
    IF customEntity = Null
    THEN [run EXCEPT !.thrown = "NotFound"]
    ELSE [run EXCEPT !.custom_entities = MapSet(@, pawn.path, customEntity)]

\* for (const [square, {path, source, controlledBy}] of Object.entries(
\* combatPreset.field)), from entry k on, up to the next await or to return result
RECURSIVE cookLoopFromRequest(_, _)
cookLoopFromRequest(c, k) ==
    IF k > Len(c.field)
    THEN Settle(c, "seed")
    ELSE LET pawn == c.field[k]
             placed == placePawnFromRequest(c.run, pawn)
         IN IF pawn.source = "embedded"
            THEN [c EXCEPT !.at = "awaitEntity", !.k = k,
                           !.run = [placed EXCEPT !.lookups = Append(@, pawn.path)]]
            ELSE cookLoopFromRequest([c EXCEPT !.run = placed], k + 1)

\* cookPresetFromRequest goes on after await DatabaseService.getEntity(path)
resumeEntityFromRequest(c) ==
    LET pawn == c.field[c.k]
        run == storeEntityFromRequest(c.run, pawn, getEntity(c.entities, pawn.path))
    IN IF run.thrown # ""
       THEN Settle([c EXCEPT !.run = run], "seed")
       ELSE cookLoopFromRequest([c EXCEPT !.run = run], c.k + 1)

\* cookPresetFromRequest up to its first await, or to its end
cookPresetFromRequest(c) ==
    cookLoopFromRequest([c EXCEPT !.fn = "cookPresetFromRequest",
                                  !.field = c.combatPreset, !.run = NewRun], 1)

\* getEmittableCombatPreset that cooks any other type as an empty requested preset
getEmittableCombatPresetFallsBack(c) ==
    LET given == IF c.type = OmittedType THEN "requested" ELSE c.type
    IN IF given = "importable"
       THEN cookPresetFromDB(c)
       ELSE IF given = "requested"
       THEN cookPresetFromRequest(c)
       ELSE Settle([c EXCEPT !.run = NewRun], "seed")

\* getEmittableCombatPreset (type defaults to 'requested' when it is omitted), up
\* to the first await of the function it hands the preset to
getEmittableCombatPreset(c) ==
    LET given == IF c.type = OmittedType THEN "requested" ELSE c.type
    IN IF given = "importable"
       THEN cookPresetFromDB(c)
       ELSE IF given = "requested"
       THEN cookPresetFromRequest(c)
       ELSE [c EXCEPT !.at = "done",
                      !.result = [outcome |-> "BadRequest",
                                  message |-> UnknownTypeMessage \o given,
                                  field_pawns |-> <<>>, custom_entities |-> <<>>,
                                  lookups |-> <<>>, presetLookups |-> <<>>]]

\* a call of getEmittableCombatPreset that is about to be made, and storage then
NewCall(type, combatPreset, presets, entities) ==
    [at |-> "called", type |-> type, combatPreset |-> combatPreset,
     presets |-> presets, entities |-> entities,
     fn |-> "", field |-> <<>>, k |-> 0, run |-> NewRun, presetLookups |-> <<>>,
     held |-> entities, seen |-> entities, result |-> Null]

\* the calls of getEmittableCombatPreset that are made: an importable preset is
\* named by an id, a requested one is given inline
CookInputs ==
    {NewCall(type, combatPreset, presets, entities) :
        type \in {"importable", "posted"}, combatPreset \in PresetIds,
        presets \in [{"preset1"} -> StoredFields], entities \in SUBSET Paths}
    \cup
    {NewCall(type, combatPreset, <<>>, entities) :
        type \in {"requested", OmittedType}, combatPreset \in RequestedFields,
        entities \in SUBSET Paths}

\* the call of getEmittableCombatPreset is made and runs to its first await
cookPreset ==
    /\ cook.at = "called"
    /\ cook' = getEmittableCombatPreset(cook)
    /\ UNCHANGED <<managedSoFar, combats, sessions, managingCombats, attempt, pc,
                   lastReturned, info>>

\* DatabaseService.getCombatPreset has answered
resumePreset ==
    /\ cook.at = "awaitPreset"
    /\ cook' = resumePresetFromDB(cook)
    /\ UNCHANGED <<managedSoFar, combats, sessions, managingCombats, attempt, pc,
                   lastReturned, info>>

\* DatabaseService.getEntity has answered
resumeEntity ==
    /\ cook.at = "awaitEntity"
    /\ cook' = IF cook.fn = "cookPresetFromDB"
               THEN resumeEntityFromDB(cook)
               ELSE resumeEntityFromRequest(cook)
    /\ UNCHANGED <<managedSoFar, combats, sessions, managingCombats, attempt, pc,
                   lastReturned, info>>

\* a field that puts two pawns on one square
HasRepeatedSquare(field) ==
    \E j, k \in 1..Len(field) : j # k /\ field[j].square = field[k].square

\* the fields handed to createNewCombatPreset while a call waits
NewPresetPawn ==
    [square |-> "A1", source |-> "embedded", path |-> "goblin",
     controlled_by |-> [type |-> "game_logic"]]

NewPresetFields == {<<NewPresetPawn>>, <<NewPresetPawn, NewPresetPawn>>}

\* DatabaseService.createNewCharacter run by another handler while the call
\* waits: storage holds one more entity
createNewCharacter(path) ==
    /\ cook.at \in {"awaitPreset", "awaitEntity"}
    /\ path \notin cook.entities
    /\ cook' = [cook EXCEPT !.entities = @ \cup {path}, !.seen = @ \cup {path}]
    /\ UNCHANGED <<managedSoFar, combats, sessions, managingCombats, attempt, pc,
                   lastReturned, info>>

\* an entity is removed from the database while the call waits
entityRemoved(path) ==
    /\ cook.at \in {"awaitPreset", "awaitEntity"}
    /\ path \in cook.entities
    /\ cook' = [cook EXCEPT !.entities = @ \ {path}, !.held = @ \ {path}]
    /\ UNCHANGED <<managedSoFar, combats, sessions, managingCombats, attempt, pc,
                   lastReturned, info>>

\* DatabaseService.createNewCombatPreset run by another handler while the call
\* waits for the preset: a field with a repeated square is refused with
\* BadRequest before anything is saved, any other is saved under a new id
createNewCombatPreset(field) ==
    /\ cook.at = "awaitPreset"
    /\ ~HasRepeatedSquare(field)
    /\ "preset2" \notin DOMAIN cook.presets
    /\ cook' = [cook EXCEPT !.presets = MapSet(@, "preset2", field)]
    /\ UNCHANGED <<managedSoFar, combats, sessions, managingCombats, attempt, pc,
                   lastReturned, info>>

---------------------------------------------------------------------------
(* LobbyService.getLobbyInfo.  The call is suspended at each of its awaits,    *)
(* where the other handlers run; info holds its locals while it is suspended   *)
(* (combatInfo, the loop position, the session object it looks at).  The       *)
(* for...in loop takes the keys of the array when it starts and visits a key   *)
(* only if the array still has it then.                                        *)
(* CombatManager.getPlayersInCombat, which the loop calls, is not a method of  *)
(* the CombatManager class of src/src/services/CombatManager.ts: where it is   *)
(* missing the call throws a TypeError and getLobbyInfo is rejected; where it  *)
(* is there it follows the specification (the players connected to the         *)
(* session), read at some moment between the call and its answer.              *)

MaxInfoCombats == 2

InfoLobbies == Lobbies \cup {"lobby3"}

\* DatabaseService.getLobby: the lobby document, or null
getLobby(lobby_id) == IF lobby_id \in Lobbies THEN [name |-> lobby_id] ELSE Null

\* CombatManager.getPlayersInCombat: the ids of the players connected to the session
getPlayersInCombat(i) == {c[1] : c \in sessions[i].connections}

\* the call resumes after an await: it has been interleaved with other handlers
\* if the registry, the index or a session is not as it was when it was suspended
Resumed(inf) ==
    [inf EXCEPT !.interleaved = @ \/ inf.seen # <<sessions, combats, managingCombats>>,
                !.seen = <<sessions, combats, managingCombats>>]

\* combatInfo.push of the entry made for session object info.combat
pushEntry(inf, entry) ==
    [inf EXCEPT !.combatInfo = Append(@, entry),
                !.pushedAbsent = IF get(entry._id) = Absent THEN @ \cup {entry._id} ELSE @]

\* the promise of getLobbyInfo is rejected with the error thrown: nothing is
\* reported
Rejected(inf, error) ==
    [inf EXCEPT !.at = "done", !.outcome = error, !.combatInfo = <<>>, !.seen = <<>>,
                !.keys = 0, !.key = 0, !.combat = Absent, !.playerIds = {}, !.pending = Null]

\* for (const combat_id in combats), from key k on, up to the next await:
\* CombatManager.get(combat_id) is called with the key, and
\* CombatManager.getPlayersInCombat with the session object found
RECURSIVE forIn(_, _)
forIn(inf, k) ==
    LET array == getActiveCombats(inf.lobby_id)
        combat_id == NumberToString(k)
    IN IF k >= inf.keys THEN [inf EXCEPT !.at = "tail"]
       ELSE IF k >= Len(array) THEN forIn(inf, k + 1)
       ELSE IF get(combat_id) = Absent THEN forIn(inf, k + 1)
       ELSE IF ~inf.hasGetPlayersInCombat THEN Rejected(inf, "TypeError")
       ELSE [inf EXCEPT !.at = "awaitPlayers", !.key = k, !.combat = get(combat_id),
                        !.playerIds = getPlayersInCombat(get(combat_id))]

\* getLobbyInfo is called: it runs up to await DatabaseService.getLobby
getLobbyInfo(lobby_id) ==
    /\ pc.op = "idle"
    /\ info.at \in {"idle", "done"}
    /\ \E defined \in BOOLEAN :
        info' = [at |-> "awaitLobby", lobby_id |-> lobby_id, name |-> "", combatInfo |-> <<>>,
                 keys |-> 0, key |-> 0, combat |-> Absent, playerIds |-> {},
                 pending |-> Null, outcome |-> "", hasGetPlayersInCombat |-> defined,
                 listed |-> <<>>, pushedAbsent |-> {}, interleaved |-> FALSE,
                 seen |-> <<sessions, combats, managingCombats>>]
    /\ attempt' = NoAttempt
    /\ UNCHANGED <<managedSoFar, combats, sessions, managingCombats, pc, lastReturned, cook>>

\* the lobby has arrived: not found, or the loop starts on the lobby's array
resumeLobby ==
    /\ pc.op = "idle"
    /\ info.at = "awaitLobby"
    /\ LET lobby == getLobby(info.lobby_id)
           quiet == Resumed(info)
       IN IF lobby = Null
          THEN info' = [quiet EXCEPT !.at = "done", !.outcome = "returned",
                                     !.name = "Lobby not found", !.seen = <<>>]
          ELSE IF info.lobby_id \notin DOMAIN managingCombats
          THEN info' = [quiet EXCEPT !.at = "tail", !.name = lobby.name]
          ELSE LET array == managingCombats[info.lobby_id]
               IN info' = forIn([quiet EXCEPT !.name = lobby.name, !.keys = Len(array),
                                              !.listed = array], 0)
    /\ attempt' = NoAttempt
    /\ UNCHANGED <<managedSoFar, combats, sessions, managingCombats, pc, lastReturned, cook>>

\* CombatManager.getPlayersInCombat reads the connections of the session while
\* the call waits for its answer
playersRead ==
    /\ pc.op = "idle"
    /\ info.at = "awaitPlayers"
    /\ info.playerIds # getPlayersInCombat(info.combat)
    /\ info' = [info EXCEPT !.playerIds = getPlayersInCombat(info.combat)]
    /\ attempt' = NoAttempt
    /\ UNCHANGED <<managedSoFar, combats, sessions, managingCombats, pc, lastReturned, cook>>

\* the player ids have arrived: the getUser lookups are started and the fields
\* of the entry are read from the session object, up to
\* await Promise.all(activePlayers), where the call waits also when there is no
\* player
resumePlayers ==
    /\ pc.op = "idle"
    /\ info.at = "awaitPlayers"
    /\ LET combat == info.combat
           inf == Resumed(info)
           entry == [nickname |-> sessions[combat].combatNickname,
                     isActive |-> isActive(combat),
                     roundCount |-> IF isActive(combat) THEN getRoundCount(combat) ELSE 0,
                     _id |-> NumberToString(info.key),
                     activePlayers |-> info.playerIds]
       IN info' = [inf EXCEPT !.at = "awaitUsers", !.pending = entry, !.playerIds = {}]
    /\ attempt' = NoAttempt
    /\ UNCHANGED <<managedSoFar, combats, sessions, managingCombats, pc, lastReturned, cook>>

\* await Promise.all(activePlayers) is over: the entry is pushed, the loop goes on
resumeUsers ==
    /\ pc.op = "idle"
    /\ info.at = "awaitUsers"
    /\ info' = forIn([pushEntry(Resumed(info), info.pending) EXCEPT !.pending = Null],
                      info.key + 1)
    /\ attempt' = NoAttempt
    /\ UNCHANGED <<managedSoFar, combats, sessions, managingCombats, pc, lastReturned, cook>>

\* the rest of getLobbyInfo (character and roster lookups) and its return
returnLobbyInfo ==
    /\ pc.op = "idle"
    /\ info.at = "tail"
    /\ info' = [Resumed(info) EXCEPT !.at = "done", !.outcome = "returned", !.seen = <<>>,
                                      !.keys = 0, !.key = 0, !.combat = Absent]
    /\ attempt' = NoAttempt
    /\ UNCHANGED <<managedSoFar, combats, sessions, managingCombats, pc, lastReturned, cook>>

Init ==
    /\ managedSoFar = 0
    /\ combats = <<>>
    /\ sessions = <<>>
    /\ managingCombats = <<>>
    /\ attempt = NoAttempt
    /\ pc = [op |-> "idle", session |-> Absent]
    /\ lastReturned = "none"
    /\ info = NoInfo
    /\ cook = NoCook

\* The registry and the lobby index: sessions are created, run and are removed
Next ==
    \/ \E l \in Lobbies, n \in Nicknames, g \in GameMasters, r \in Rosters :
            createCombat(l, n, g, r)
    \/ \E i \in 1..Len(sessions) : startCombat(i)
    \/ \E i \in 1..Len(sessions) : completeRound(i)
    \/ \E i \in 1..Len(sessions) : invokeRemoveSelf(i)
    \/ finishRemoveSelf

Spec == Init /\ [][Next]_vars

\* Admission: connections arrive and close while sessions are created and removed
NextAdmission ==
    \/ \E l \in Lobbies, n \in Nicknames, g \in GameMasters, r \in Rosters :
            managedSoFar < MaxAdmissionCombats /\ createCombat(l, n, g, r)
    \/ \E i \in 1..Len(sessions) : invokeRemoveSelf(i)
    \/ finishRemoveSelf
    \/ \E s \in Sockets, id \in RequestedIds, tok \in Tokens : socketConnects(s, id, tok)
    \/ \E i \in 1..Len(sessions) : \E c \in sessions[i].connections : closeSocket(i, c)

SpecAdmission == Init /\ [][NextAdmission]_vars

\* the sockets that connect while sessions are removed: two, so that a player can
\* be refused a second connection
IsolationSockets == {1, 2}

\* Isolation: sessions are created and removed, once or repeatedly, while
\* connections arrive and are attached or rejected
NextIsolation ==
    \/ \E l \in Lobbies, n \in Nicknames, g \in GameMasters, r \in Rosters :
            createCombat(l, n, g, r)
    \/ \E i \in 1..Len(sessions) : invokeRemoveSelf(i)
    \/ finishRemoveSelf
    \/ \E s \in IsolationSockets, id \in RequestedIds, tok \in Tokens :
            socketConnects(s, id, tok)

SpecIsolation == Init /\ [][NextIsolation]_vars

\* Cooking: every call of CookInputs, run to its outcome while storage is written to
InitCook ==
    /\ managedSoFar = 0
    /\ combats = <<>>
    /\ sessions = <<>>
    /\ managingCombats = <<>>
    /\ attempt = NoAttempt
    /\ pc = [op |-> "idle", session |-> Absent]
    /\ lastReturned = "none"
    /\ info = NoInfo
    /\ cook \in CookInputs

NextCook ==
    \/ cookPreset
    \/ resumePreset
    \/ resumeEntity
    \/ \E path \in Paths : createNewCharacter(path)
    \/ \E path \in Paths : entityRemoved(path)
    \/ \E field \in NewPresetFields : createNewCombatPreset(field)

SpecCook == InitCook /\ [][NextCook]_vars

\* Aggregation: getLobbyInfo runs while sessions are created, played, joined and
\* removed
NextLobbyInfo ==
    \/ \E l \in Lobbies, n \in Nicknames, g \in GameMasters, r \in Rosters :
            managedSoFar < MaxInfoCombats /\ createCombat(l, n, g, r)
    \/ \E i \in 1..Len(sessions) : startCombat(i)
    \/ \E i \in 1..Len(sessions) : completeRound(i)
    \/ \E i \in 1..Len(sessions) : invokeRemoveSelf(i)
    \/ finishRemoveSelf
    \/ \E id \in RequestedIds, tok \in Tokens : tok.valid /\ socketConnects(1, id, tok)
    \/ \E l \in InfoLobbies : getLobbyInfo(l)
    \/ resumeLobby
    \/ playersRead
    \/ resumePlayers
    \/ resumeUsers
    \/ returnLobbyInfo

SpecLobbyInfo == Init /\ [][NextLobbyInfo]_vars
---------------------------------------------------------------------------
(* Properties *)

\* x occurs in the sequence seq
Occurs(seq, x) == \E k \in 1..Len(seq) : seq[k] = x

\* some occurrence of x in seq comes before position k
OccursBefore(seq, x, k) == \E j \in 1..(k - 1) : seq[j] = x

\* manageSocket was the last handler to run
Admitting == attempt.socket # 0

\* C1: between operations, every SessionId held in any lobby's active-combat list
\* resolves to a session through CombatManager.get (no dangling id in the index).
C1_LobbyIndexResolves ==
    pc.op = "idle" =>
        \A l \in Lobbies : \A k \in 1..Len(getActiveCombats(l)) :
            get(getActiveCombats(l)[k]) # Absent

\* a session has been removed while its lobby still lists another, live session
C1_Witness ==
    /\ pc.op = "idle"
    /\ \E i, j \in 1..Len(sessions) :
        /\ sessions[i].status = "Finished"
        /\ sessions[j].lobby_id = sessions[i].lobby_id
        /\ Occurs(getActiveCombats(sessions[j].lobby_id), sessions[j].combat_id)

\* C2: once the removal callback of a session has run, get(id) is absent and the
\* active-combat list of the creating lobby does not contain id.
C2_RemovedEverywhere ==
    pc.op = "idle" =>
        \A i \in 1..Len(sessions) :
            sessions[i].status = "Finished" =>
                /\ get(sessions[i].combat_id) = Absent
                /\ indexOf(getActiveCombats(sessions[i].lobby_id), sessions[i].combat_id) = -1

\* the first of two sessions of a lobby has been removed, the second is still listed
C2_Witness ==
    /\ pc.op = "idle"
    /\ Len(sessions) >= 2
    /\ sessions[1].status = "Finished"
    /\ sessions[2].lobby_id = sessions[1].lobby_id
    /\ getActiveCombats(sessions[1].lobby_id) = <<sessions[2].combat_id>>

\* C3: the ids issued by createCombat are the counter values 0, 1, 2, ... as
\* strings, in order, pairwise distinct over the whole life of the registry, also
\* after sessions have been deleted.
C3_IdsNeverReused ==
    /\ managedSoFar = Len(sessions)
    /\ \A i \in 1..Len(sessions) : sessions[i].combat_id = NumberToString(i - 1)
    /\ \A i, j \in 1..Len(sessions) :
            i # j => sessions[i].combat_id # sessions[j].combat_id

\* three ids have been issued, the first session is deleted, the last one resolves
C3_Witness ==
    /\ Len(sessions) = 3
    /\ get(sessions[1].combat_id) = Absent
    /\ get(sessions[3].combat_id) = 3

\* C4: on an existing session, an admission with a valid token is attached when
\* the player has no attached connection; when the player has one, the attempt
\* is rejected, its socket is disconnected, and the connections of the session
\* (the first one among them) stay as they were.
C4_SecondAdmissionRejected ==
    [][LET a == attempt'
           i == get(a.combat_id)
           u == verifyAccessToken(a.token)
       IN (a.socket # 0 /\ i # Absent /\ ~verifyAccessTokenThrows(a.token)) =>
            IF isPlayerInCombat(i, u)
            THEN /\ a.disconnected
                 /\ ~Occurs(a.calls, "handlePlayer")
                 /\ sessions' = sessions
            ELSE /\ ~a.disconnected
                 /\ sessions'[i].connections = sessions[i].connections \cup {<<u, a.socket>>}]_vars

\* a second admission of a connected player has just been rejected
C4_Witness ==
    /\ Admitting
    /\ attempt.disconnected
    /\ Occurs(attempt.calls, "isPlayerInCombat")
    /\ \E c \in sessions[get(attempt.combat_id)].connections :
            c[1] = attempt.token.sub /\ c[2] # attempt.socket

\* C5: every session holds at most one live connection per player.
C5_OneConnectionPerPlayer ==
    \A i \in 1..Len(sessions) : \A c, d \in sessions[i].connections :
        c[1] = d[1] => c = d

\* a session with the connections of two players
C5_Witness == \E i \in 1..Len(sessions) : Cardinality(sessions[i].connections) = 2

\* C6: an admission on an existing session with a token that fails verification
\* emits "invalid_token", then disconnects the socket, and never calls handlePlayer.
C6_InvalidTokenRejected ==
    (Admitting /\ get(attempt.combat_id) # Absent /\ verifyAccessTokenThrows(attempt.token)) =>
        /\ \E k \in 1..Len(attempt.calls) :
            /\ attempt.calls[k] = "emit invalid_token"
            /\ \E m \in (k + 1)..Len(attempt.calls) : attempt.calls[m] = "disconnect"
        /\ attempt.disconnected
        /\ ~Occurs(attempt.calls, "handlePlayer")
        /\ attempt.socket \notin LiveSockets

\* an invalid token has just been presented for a session that exists
C6_Witness ==
    /\ Admitting
    /\ get(attempt.combat_id) # Absent
    /\ verifyAccessTokenThrows(attempt.token)
    /\ Occurs(attempt.calls, "emit invalid_token")

\* C7: an admission whose sessionId does not resolve disconnects the socket and
\* stops: no token verification, no "invalid_token", nothing attached.
C7_AbsentSessionRejected ==
    (Admitting /\ get(attempt.combat_id) = Absent) =>
        /\ attempt.calls = <<"get", "disconnect">>
        /\ attempt.disconnected
        /\ attempt.socket \notin LiveSockets

\* an invalid token has just been presented for a session that was removed
C7_Witness ==
    /\ Admitting
    /\ get(attempt.combat_id) = Absent
    /\ verifyAccessTokenThrows(attempt.token)
    /\ \E i \in 1..Len(sessions) : sessions[i].combat_id = attempt.combat_id

\* C8: in every admission the token is verified before the duplicate check and
\* before the attach, and the admission ends either attached by handlePlayer or
\* disconnected, never both and never neither.
C8_AttachedOrDisconnected ==
    Admitting =>
        /\ \A k \in 1..Len(attempt.calls) :
            attempt.calls[k] \in {"isPlayerInCombat", "handlePlayer"} =>
                OccursBefore(attempt.calls, "verifyAccessToken", k)
        /\ Occurs(attempt.calls, "handlePlayer") <=> attempt.socket \in LiveSockets
        /\ Occurs(attempt.calls, "disconnect") <=> attempt.disconnected
        /\ attempt.disconnected <=> attempt.socket \notin LiveSockets
        /\ attempt.disconnected => attempt.calls[Len(attempt.calls)] = "disconnect"

\* an admission has just ended attached
C8_Witness ==
    /\ Admitting
    /\ attempt.calls = <<"get", "verifyAccessToken", "isPlayerInCombat", "handlePlayer">>
    /\ attempt.socket \in LiveSockets

\* C9: an id in the registry never names a finished session, and from the first
\* statement of a session's removal callback on get(id) is absent, also while
\* the cleanup hook has not run yet.
C9_RemovalStartedIsUnresolvable ==
    /\ \A id \in DOMAIN combats : sessions[get(id)].status # "Finished"
    /\ \A i \in 1..Len(sessions) :
            sessions[i].status = "Finished" => get(sessions[i].combat_id) = Absent

\* inside removeSelf, before the hook: the lobby still lists the id
C9_Witness ==
    /\ pc.op = "removeSelf"
    /\ Occurs(getActiveCombats(sessions[pc.session].lobby_id), sessions[pc.session].combat_id)
    /\ get(sessions[pc.session].combat_id) = Absent

\* C10: right after createCombat has returned a SessionId, get of that id is the
\* new session, with round count 0 and isActive() false.
C10_CreatedSessionIsFresh ==
    [][managedSoFar' # managedSoFar =>
        /\ lastReturned' \in DOMAIN combats'
        /\ combats'[lastReturned'] = Len(sessions')
        /\ sessions'[combats'[lastReturned']].roundCount = 0
        /\ sessions'[combats'[lastReturned']].status # "Active"]_vars

\* createCombat has returned the id of a second session, which resolves
C10_Witness ==
    /\ pc.op = "idle"
    /\ lastReturned = "1"
    /\ get(lastReturned) # Absent
    /\ getRoundCount(get(lastReturned)) = 0
    /\ ~isActive(get(lastReturned))

\* the ids of the sessions created for a lobby that have not signalled completion,
\* in creation order
LiveIdsOf(lobby_id) ==
    LET live == SelectSeq(sessions,
                    LAMBDA r : r.lobby_id = lobby_id /\ r.status # "Finished")
    IN [k \in 1..Len(live) |-> live[k].combat_id]

\* C11: between operations getActiveCombats(lobbyId) is exactly the ids created
\* for the lobby whose session has not signalled completion, each once and in
\* creation order (one id after one createCombat, none after its completion).
C11_ActiveCombatsAreLiveIds ==
    pc.op = "idle" => \A l \in Lobbies : getActiveCombats(l) = LiveIdsOf(l)

\* three sessions of one lobby, the middle one has completed
C11_Witness ==
    /\ pc.op = "idle"
    /\ Len(sessions) = 3
    /\ sessions[2].status = "Finished"
    /\ getActiveCombats(sessions[2].lobby_id) = <<sessions[1].combat_id, sessions[3].combat_id>>

\* the pawns a finished call had to cook: the stored field of the named preset,
\* or the entries of the requested field
CookedField ==
    IF cook.type = "importable"
    THEN IF cook.combatPreset \in DOMAIN cook.presets
         THEN cook.presets[cook.combatPreset] ELSE <<>>
    ELSE cook.combatPreset

MissingEmbedded(field, entities) ==
    {k \in 1..Len(field) : field[k].source = "embedded" /\ field[k].path \notin entities}

EmbeddedPaths(field) == {field[k].path : k \in {j \in 1..Len(field) : field[j].source = "embedded"}}

NoSeed(result) == result.field_pawns = <<>> /\ result.custom_entities = <<>>

\* storage held the same entities from the call to its outcome
EntitiesUnchanged == cook.held = cook.seen

\* a call run to its outcome against storage that stays as it is
RECURSIVE RunToEnd(_)
RunToEnd(c) ==
    IF c.at = "done" THEN c
    ELSE IF c.at = "called" THEN RunToEnd(getEmittableCombatPreset(c))
    ELSE IF c.at = "awaitPreset" THEN RunToEnd(resumePresetFromDB(c))
    ELSE IF c.fn = "cookPresetFromDB" THEN RunToEnd(resumeEntityFromDB(c))
    ELSE RunToEnd(resumeEntityFromRequest(c))

\* C12: cooking a preset that places two pawns on the same square fails with
\* BadRequest in either mode and returns no seed (stated for presets whose
\* embedded entities storage held all along the call, so that no other failure
\* is in play).
C12_DuplicateSquaresRejected ==
    (/\ cook.at = "done"
     /\ cook.type \in {"importable", "requested"}
     /\ HasRepeatedSquare(CookedField)
     /\ MissingEmbedded(CookedField, cook.held) = {})
    => cook.result.outcome = "BadRequest" /\ NoSeed(cook.result)

\* C13: cooking a preset, in either mode, that has an embedded pawn whose entity
\* storage does not hold (at no moment of the call, whatever else is written to
\* storage meanwhile) fails with NotFound and returns no seed, partial or
\* complete.
C13_MissingEntityIsNotFound ==
    (/\ cook.at = "done"
     /\ cook.type \in {"importable", "requested", OmittedType}
     /\ MissingEmbedded(CookedField, cook.seen) # {})
    => cook.result.outcome = "NotFound" /\ NoSeed(cook.result)

C13_Witness ==
    /\ cook.at = "done"
    /\ cook.type = "importable"
    /\ cook.combatPreset \in DOMAIN cook.presets
    /\ Len(CookedField) = 2
    /\ CookedField[1].source = "dlc"
    /\ CookedField[1].square # CookedField[2].square
    /\ MissingEmbedded(CookedField, cook.seen) = {2}
    /\ ~EntitiesUnchanged
    /\ cook.result.outcome = "NotFound"

\* C14: a requested preset whose embedded entities all exist (storage holds them
\* all along the call, whatever else is written to it meanwhile) cooks to a seed
\* that has, for every square S of the request, field_pawns[S] with
\* entity_preset = {source, name: path} and owner = controlledBy, and whose
\* custom_entities holds exactly the embedded paths, each with the definition
\* storage holds for it.
C14_RequestedSeedShape ==
    (/\ cook.at = "done"
     /\ cook.type \in {"requested", OmittedType}
     /\ MissingEmbedded(cook.combatPreset, cook.held) = {})
    => LET field == cook.combatPreset
           seed == cook.result
       IN /\ seed.outcome = "seed"
          /\ DOMAIN seed.field_pawns = {field[k].square : k \in 1..Len(field)}
          /\ \A k \in 1..Len(field) :
                seed.field_pawns[field[k].square] =
                    [entity_preset |-> [source |-> field[k].source, name |-> field[k].path],
                     owner |-> field[k].controlledBy]
          /\ DOMAIN seed.custom_entities = EmbeddedPaths(field)
          /\ \A path \in EmbeddedPaths(field) :
                seed.custom_entities[path] = EntityDefinition(path)

C14_Witness ==
    /\ cook.at = "done"
    /\ cook.type = "requested"
    /\ Len(cook.combatPreset) = 2
    /\ cook.combatPreset[1].source = "embedded"
    /\ cook.combatPreset[2].source = "dlc"
    /\ cook.combatPreset[1].controlledBy # cook.combatPreset[2].controlledBy
    /\ ~EntitiesUnchanged
    /\ cook.result.outcome = "seed"
    /\ DOMAIN cook.result.custom_entities = {cook.combatPreset[1].path}

\* C15: a call with a type other than "importable" and "requested" fails with
\* BadRequest, the message carries the type given, and neither the preset
\* collection nor the entity collection is read.
C15_UnknownTypeRejected ==
    (/\ cook.at = "done"
     /\ cook.type \notin {"importable", "requested", OmittedType})
    => /\ cook.result.outcome = "BadRequest"
       /\ cook.result.message = UnknownTypeMessage \o cook.type
       /\ cook.result.lookups = <<>>
       /\ cook.result.presetLookups = <<>>
       /\ NoSeed(cook.result)

C15_Witness ==
    /\ cook.at = "done"
    /\ cook.type = "posted"
    /\ cook.combatPreset \in DOMAIN cook.presets
    /\ EmbeddedPaths(cook.presets[cook.combatPreset]) # {}
    /\ cook.result.outcome = "BadRequest"

\* connection c of session i is closed by the step
Closes(i, c) == c \in sessions[i].connections /\ c \notin sessions'[i].connections

\* C16: closing a player's connection releases the player's slot in the session:
\* right after the close the session holds no connection of that player, and an
\* admission with a valid token on an existing session whose player holds no
\* connection (the state a close leaves) is attached, not rejected.
C16_ClosedSlotIsReleased ==
    [][/\ \A i \in 1..Len(sessions) : \A c \in sessions[i].connections :
            Closes(i, c) => \A d \in sessions'[i].connections : d[1] # c[1]
       /\ LET a == attempt'
              i == get(a.combat_id)
              u == verifyAccessToken(a.token)
          IN (/\ a.socket # 0
              /\ i # Absent
              /\ ~verifyAccessTokenThrows(a.token)
              /\ \A d \in sessions[i].connections : d[1] # u)
             => /\ ~a.disconnected
                /\ a.calls[Len(a.calls)] = "handlePlayer"
                /\ <<u, a.socket>> \in sessions'[i].connections]_vars

\* the only session holds a second player on socket 2 and has just attached a
\* player on socket 1: socket 1 was that player's, was closed, and is attached anew
C16_Witness ==
    /\ Len(sessions) = 1
    /\ get(sessions[1].combat_id) = 1
    /\ Admitting
    /\ attempt.socket = 1
    /\ ~attempt.disconnected
    /\ Occurs(attempt.calls, "handlePlayer")
    /\ \E u \in Users : sessions[1].connections = {<<attempt.token.sub, 1>>, <<u, 2>>}

\* C17: the close of a player's connection changes that player's binding only:
\* status and round count of the session, its other connections, every other
\* session, the registry and the lobby lists stay as they were.
C17_CloseChangesOneBinding ==
    [][\A i \in 1..Len(sessions) : \A c \in sessions[i].connections :
            Closes(i, c) =>
                /\ sessions' = [sessions EXCEPT ![i].connections = @ \ {c}]
                /\ sessions'[i].status = sessions[i].status
                /\ sessions'[i].roundCount = sessions[i].roundCount
                /\ combats' = combats
                /\ managedSoFar' = managedSoFar
                /\ managingCombats' = managingCombats]_vars

\* socket 1 has been closed while socket 2 stays attached to a resolvable session
C17_Witness ==
    /\ pc.op = "idle"
    /\ ~Admitting
    /\ LiveSockets = {2}
    /\ \E i \in 1..Len(sessions) :
            /\ get(sessions[i].combat_id) = i
            /\ \E u \in Users : sessions[i].connections = {<<u, 2>>}

\* the ids of a lobby list other than combat_id, in order
Without(array, combat_id) == SelectSeq(array, LAMBDA x : x # combat_id)

\* C20: the removal of one session, and the rejection of an admission, leave
\* every other session, every other registry entry and the other ids of every
\* lobby list (content and order) as they were.
C20_OthersUntouched ==
    [][/\ (pc.op = "removeSelf" \/ pc'.op = "removeSelf") =>
            LET i == IF pc.op = "removeSelf" THEN pc.session ELSE pc'.session
                id == sessions[i].combat_id
            IN /\ \A j \in 1..Len(sessions) : j # i => sessions'[j] = sessions[j]
               /\ MapDelete(combats', id) = MapDelete(combats, id)
               /\ \A l \in Lobbies :
                    Without(getActiveCombats(l)', id) = Without(getActiveCombats(l), id)
       /\ (attempt'.socket # 0 /\ attempt'.disconnected) =>
            /\ sessions' = sessions
            /\ combats' = combats
            /\ managingCombats' = managingCombats]_vars

\* the first of three sessions of one lobby has been removed: the other two keep
\* their registry entries and their places in the list, in the order of their
\* creation, the third keeps its connection, and an admission on the removed
\* session has just been rejected
C20_Witness ==
    /\ pc.op = "idle"
    /\ Len(sessions) = 3
    /\ sessions[1].status = "Finished"
    /\ sessions[2].lobby_id = sessions[1].lobby_id
    /\ sessions[3].lobby_id = sessions[1].lobby_id
    /\ get(sessions[1].combat_id) = Absent
    /\ get(sessions[2].combat_id) = 2
    /\ get(sessions[3].combat_id) = 3
    /\ getActiveCombats(sessions[1].lobby_id) = <<sessions[2].combat_id, sessions[3].combat_id>>
    /\ sessions[3].connections # {}
    /\ attempt.socket # 0
    /\ attempt.disconnected
    /\ attempt.combat_id = sessions[1].combat_id

\* getLobbyInfo returns in this step (its promise resolves)
Returns == info.at # "done" /\ info'.at = "done" /\ info'.outcome = "returned"

\* the entries of combatInfo that carry id
EntriesOf(combatInfo, id) == {k \in 1..Len(combatInfo) : combatInfo[k]._id = id}

\* C18: a call of getLobbyInfo that no other handler interleaves returns exactly
\* one combat entry for each id of the lobby's active-combat list, carrying that
\* id and the nickname, active flag and round count (0 if not active) of that
\* session, and no entry for a session of another lobby.
C18_OneEntryPerListedSession ==
    [][(Returns /\ ~info'.interleaved) =>
            LET list == getActiveCombats(info'.lobby_id)
                combatInfo == info'.combatInfo
            IN /\ \A j \in 1..Len(list) : Cardinality(EntriesOf(combatInfo, list[j])) = 1
               /\ \A k \in 1..Len(combatInfo) :
                    LET i == get(combatInfo[k]._id)
                    IN /\ Occurs(list, combatInfo[k]._id)
                       /\ i # Absent
                       /\ sessions[i].lobby_id = info'.lobby_id
                       /\ combatInfo[k].nickname = sessions[i].combatNickname
                       /\ combatInfo[k].isActive = (sessions[i].status = "Active")
                       /\ combatInfo[k].roundCount =
                            IF sessions[i].status = "Active" THEN sessions[i].roundCount ELSE 0]_vars

\* the ids the call enumerated that are no longer registered when it returns
RemovedWhileRunning == {id \in {info'.listed[k] : k \in 1..Len(info'.listed)} : get(id) = Absent}

\* C19: when a session of the lobby is removed while getLobbyInfo is suspended
\* between the enumeration of the list and the look-up of that session, the call
\* returns, no entry is pushed for a session that is no longer registered, and
\* every enumerated session that is still registered is reported (stated for
\* lists whose ids are their own positions "0", "1", ..., where the keys of the
\* loop are the ids).
C19_RemovedSessionOmitted ==
    [][(/\ Returns
        /\ RemovedWhileRunning # {}
        /\ \A k \in 1..Len(info'.listed) : info'.listed[k] = NumberToString(k - 1))
       => /\ info'.pushedAbsent = {}
          /\ \A k \in 1..Len(info'.listed) :
                get(info'.listed[k]) # Absent
                    => EntriesOf(info'.combatInfo, info'.listed[k]) # {}]_vars

\* the list of a lobby in the state a step leads to
ListAfterStep(lobby_id) ==
    IF lobby_id \in DOMAIN managingCombats' THEN managingCombats'[lobby_id] ELSE <<>>

\* the place of a status on the path Pending -> Active -> Finished
Rank(status) == CASE status = "Pending" -> 0 [] status = "Active" -> 1 [] status = "Finished" -> 2

\* C21: a session starts Pending, its status never moves back, Finished is
\* terminal, and the step that enters Finished deletes the session from the
\* registry and is followed by the hook that prunes its id from the lobby list.
C21_StatusMovesForward ==
    [][/\ \A i \in 1..Len(sessions) :
            /\ Rank(sessions'[i].status) >= Rank(sessions[i].status)
            /\ sessions[i].status = "Finished" => sessions'[i].status = "Finished"
            /\ (sessions[i].status # "Finished" /\ sessions'[i].status = "Finished") =>
                    /\ sessions[i].combat_id \notin DOMAIN combats'
                    /\ pc' = [op |-> "removeSelf", session |-> i]
       /\ \A i \in (Len(sessions) + 1)..Len(sessions') : sessions'[i].status = "Pending"
       /\ pc.op = "removeSelf" =>
            /\ pc'.op = "idle"
            /\ sessions[pc.session].combat_id \notin DOMAIN combats'
            /\ ~Occurs(ListAfterStep(sessions[pc.session].lobby_id),
                       sessions[pc.session].combat_id)]_vars

\* a session that was played for a round has finished and is gone from the
\* registry and from its lobby's list, which keeps a later session
C21_Witness ==
    /\ pc.op = "idle"
    /\ Len(sessions) >= 2
    /\ sessions[1].status = "Finished"
    /\ sessions[1].roundCount = 1
    /\ get(sessions[1].combat_id) = Absent
    /\ sessions[2].status = "Active"
    /\ getActiveCombats(sessions[1].lobby_id) = <<sessions[2].combat_id>>

\* C22: the removal callback deletes the session from the registry map in its
\* first statement, leaving the lobby lists alone, and calls the hook second: while
\* the hook runs get(id) is absent already, and the hook changes the list only.
C22_DeleteBeforeHook ==
    [][/\ (pc.op = "idle" /\ pc'.op = "removeSelf") =>
            /\ combats' = MapDelete(combats, sessions[pc'.session].combat_id)
            /\ managingCombats' = managingCombats
       /\ pc.op = "removeSelf" =>
            /\ get(sessions[pc.session].combat_id) = Absent
            /\ combats' = combats
            /\ indexOf(ListAfterStep(sessions[pc.session].lobby_id),
                       sessions[pc.session].combat_id) = -1]_vars

\* the callback of the second session of a lobby is between its two statements:
\* the list still holds both ids, the registry only the first
C22_Witness ==
    /\ pc.op = "removeSelf"
    /\ pc.session = 2
    /\ getActiveCombats(sessions[2].lobby_id) = <<sessions[1].combat_id, sessions[2].combat_id>>
    /\ get(sessions[1].combat_id) = 1
    /\ get(sessions[2].combat_id) = Absent

\* the requested payloads that describe the pawns of a stored field: the same
\* square, path, source and controller for each, as object entries in any order
RequestedPayloadsOf(field) ==
    {[k \in 1..Len(field) |->
            [square |-> field[order[k]].square, source |-> field[order[k]].source,
             path |-> field[order[k]].path, controlledBy |-> field[order[k]].controlled_by]] :
        order \in {f \in [1..Len(field) -> 1..Len(field)] :
                        \A j, k \in 1..Len(field) : j # k => f[j] # f[k]}}

\* what the caller can tell two outcomes apart by
Observable(result) ==
    [outcome |-> result.outcome, message |-> result.message,
     field_pawns |-> result.field_pawns, custom_entities |-> result.custom_entities]

\* C23: for a stored preset with pairwise distinct squares, cooking it in
\* importable mode and cooking a requested payload that describes the same pawns,
\* against the same entity storage, give the same outcome: equal field_pawns and
\* custom_entities on success, the same NotFound failure otherwise.  The same
\* storage: the entities storage holds do not change while the importable call
\* runs, and the requested call runs against them.
C23_ModesAgree ==
    (/\ cook.at = "done"
     /\ cook.type = "importable"
     /\ cook.combatPreset \in DOMAIN cook.presets
     /\ ~HasRepeatedSquare(CookedField)
     /\ EntitiesUnchanged)
    => \A payload \in RequestedPayloadsOf(CookedField) :
            /\ payload \in RequestedFields
            /\ Observable(RunToEnd(NewCall("requested", payload, cook.presets,
                                           cook.entities)).result)
                    = Observable(cook.result)
            /\ cook.result.outcome \in {"seed", "NotFound"}

C23_Witness ==
    /\ cook.at = "done"
    /\ cook.type = "importable"
    /\ cook.combatPreset \in DOMAIN cook.presets
    /\ Len(CookedField) = 2
    /\ ~HasRepeatedSquare(CookedField)
    /\ CookedField[1].source = "dlc"
    /\ CookedField[2].source = "embedded"
    /\ CookedField[1].controlled_by # CookedField[2].controlled_by
    /\ EntitiesUnchanged
    /\ cook.result.outcome = "seed"
    /\ DOMAIN cook.result.custom_entities = {CookedField[2].path}

\* C24: in every seed that cooking returns, in either mode, each pawn of
\* field_pawns whose entity_preset.source is "embedded" has an entry in
\* custom_entities under its entity_preset.name.
C24_EmbeddedPawnsResolved ==
    (cook.at = "done" /\ cook.result.outcome = "seed")
    => \A square \in DOMAIN cook.result.field_pawns :
            cook.result.field_pawns[square].entity_preset.source = "embedded"
                => cook.result.field_pawns[square].entity_preset.name
                        \in DOMAIN cook.result.custom_entities

C24_Witness ==
    /\ cook.at = "done"
    /\ cook.type = "importable"
    /\ cook.result.outcome = "seed"
    /\ DOMAIN cook.result.field_pawns = Squares
    /\ \A square \in Squares :
            cook.result.field_pawns[square].entity_preset.source = "embedded"
    /\ DOMAIN cook.result.custom_entities = Paths
    /\ cook.entities # Paths

C25_SecondRemovalChangesNothing ==
    [][/\ (pc.op = "idle" /\ pc'.op = "removeSelf"
                /\ sessions[pc'.session].status = "Finished") =>
            /\ combats' = combats
            /\ managingCombats' = managingCombats
            /\ sessions' = sessions
       /\ (pc.op = "removeSelf"
                /\ ~Occurs(getActiveCombats(sessions[pc.session].lobby_id),
                           sessions[pc.session].combat_id)) =>
            /\ combats' = combats
            /\ managingCombats' = managingCombats
            /\ sessions' = sessions]_vars

\* the callback of a removed session runs again, about to call the hook, while
\* the list of its lobby holds the id of another, registered session
C25_Witness ==
    /\ pc.op = "removeSelf"
    /\ ~Occurs(getActiveCombats(sessions[pc.session].lobby_id), sessions[pc.session].combat_id)
    /\ \E j \in 1..Len(sessions) :
            /\ j > pc.session
            /\ get(sessions[j].combat_id) = j
            /\ getActiveCombats(sessions[pc.session].lobby_id) = <<sessions[j].combat_id>>

\* the places <<lobby, position>> at which an id stands in the lobby lists
PlacesOf(id) ==
    UNION {{<<l, k>> : k \in {j \in 1..Len(managingCombats[l]) : managingCombats[l][j] = id}} :
                l \in DOMAIN managingCombats}

\* C26: between operations every id that resolves in the registry stands exactly
\* once in the lobby lists, in the list of the lobby it was created for.
C26_ListedExactlyOnce ==
    pc.op = "idle" =>
        \A id \in DOMAIN combats :
            /\ Cardinality(PlacesOf(id)) = 1
            /\ \A place \in PlacesOf(id) : place[1] = sessions[get(id)].lobby_id

\* both lobbies list a session of their own and a third session has been removed
C26_Witness ==
    /\ pc.op = "idle"
    /\ Len(sessions) = 3
    /\ sessions[1].lobby_id # sessions[3].lobby_id
    /\ sessions[2].status = "Finished"
    /\ DOMAIN combats = {sessions[1].combat_id, sessions[3].combat_id}
    /\ getActiveCombats(sessions[1].lobby_id) = <<sessions[1].combat_id>>
    /\ getActiveCombats(sessions[3].lobby_id) = <<sessions[3].combat_id>>

\* user_id is neither in the player roster of session i nor its game master
Outsider(i, user_id) == ~Occurs(sessions[i].players, user_id) /\ user_id # sessions[i].gm_id

\* C27: manageSocket never reads the roster or the game master: for a user with a
\* valid token who is neither, on a session that resolves, the admission makes the
\* calls it makes for a roster member and ends attached by handlePlayer, unless
\* the user holds another connection to the session, and then it is rejected as
\* a duplicate.
C27_RosterNotConsulted ==
    LET i == get(attempt.combat_id)
        u == verifyAccessToken(attempt.token)
    IN (/\ Admitting
        /\ i # Absent
        /\ ~verifyAccessTokenThrows(attempt.token)
        /\ Outsider(i, u))
       => IF \E c \in sessions[i].connections : c[1] = u /\ c[2] # attempt.socket
          THEN attempt.calls = <<"get", "verifyAccessToken", "isPlayerInCombat", "disconnect">>
          ELSE /\ attempt.calls =
                    <<"get", "verifyAccessToken", "isPlayerInCombat", "handlePlayer">>
               /\ ~attempt.disconnected
               /\ <<u, attempt.socket>> \in sessions[i].connections

\* a user outside the roster has just been attached beside the roster member
C27_Witness ==
    /\ Admitting
    /\ ~attempt.disconnected
    /\ get(attempt.combat_id) # Absent
    /\ Outsider(get(attempt.combat_id), attempt.token.sub)
    /\ Cardinality(sessions[get(attempt.combat_id)].connections) = 2
    /\ <<attempt.token.sub, attempt.socket>> \in sessions[get(attempt.combat_id)].connections

\* C28: a rejected admission, whatever its cause, leaves the registry map and its
\* counter, every lobby list and every session (its connections among the rest)
\* unchanged; it signals "invalid_token" only for a token that fails on a session
\* that resolves, calls disconnect last and never calls handlePlayer.
C28_RejectionChangesNothing ==
    [][(attempt'.socket # 0 /\ attempt'.disconnected) =>
            /\ combats' = combats
            /\ managedSoFar' = managedSoFar
            /\ managingCombats' = managingCombats
            /\ Len(sessions') = Len(sessions)
            /\ \A i \in 1..Len(sessions) : sessions'[i].connections = sessions[i].connections
            /\ sessions' = sessions
            /\ attempt'.socket \notin LiveSockets
            /\ ~Occurs(attempt'.calls, "handlePlayer")
            /\ attempt'.calls[Len(attempt'.calls)] = "disconnect"
            /\ Occurs(attempt'.calls, "emit invalid_token") <=>
                    (get(attempt'.combat_id) # Absent
                        /\ verifyAccessTokenThrows(attempt'.token))]_vars

\* an attempt on a removed session has been rejected while another session,
\* registered and listed, holds a connection
C28_Witness ==
    /\ Admitting
    /\ attempt.disconnected
    /\ attempt.calls = <<"get", "disconnect">>
    /\ \E i, j \in 1..Len(sessions) :
            /\ sessions[i].combat_id = attempt.combat_id
            /\ sessions[i].status = "Finished"
            /\ get(sessions[j].combat_id) = j
            /\ sessions[j].connections # {}
            /\ Occurs(getActiveCombats(sessions[j].lobby_id), sessions[j].combat_id)

====
